---- MODULE Spec2Model ----
(***************************************************************************)
(* Conversation-session coordination of oai-temporal-wealth-management:    *)
(* the HTTP handlers of src/api/main.py and the interactive client of      *)
(* src/temporal_supervisor/run_supervisor.py, running concurrently against *)
(* one conversation identity of the durable execution substrate, with the  *)
(* worker of src/temporal_supervisor/run_worker.py executing the session.  *)
(***************************************************************************)
EXTENDS Integers, Sequences, FiniteSets, TLC

\* ---------------------------------------------------------------- bounds
MaxRuns == 2        \* session instances ever started under the identity
MaxHist == 3        \* turns committed in one execution, over all instances

\* ------------------------------------------------------------- constants
QueryTimeout == 5   \* seconds, api/main.py:78
NoLen == -1         \* chat_length left unset by the caller (api/main.py:119-121)

CLIs == {"c1", "c2"}            \* interactive clients (run_supervisor.py processes)
Reqs == {"r1", "r2"}            \* HTTP requests in flight (api/main.py handlers)
Callers == CLIs \cup Reqs
\* the callers running side by side in one execution
Teams == {{"c1"}, {"c1", "c2"}, {"c1", "r1"}, {"r1", "r2"}}

\* texts are sequences of characters
NoText == <<>>
Ends == <<"e", "n", "d", "s">>          \* a line that contains an exit word
\* lines typed at the prompt
Lines == {Ends, <<"e", "x", "i", "t">>, <<"E", "n", "D">>, <<"Q", "U", "I", "T">>}
Prompts == {Ends}                       \* prompts posted to /send-prompt

VARIABLES
    runs,       \* the identity's instances, oldest first
    workerUp,   \* whether a worker polls the task queue
    cli,        \* interactive clients
    api,        \* HTTP requests
    updRes      \* outcome of each caller's update, as delivered by the substrate

vars == <<runs, workerUp, cli, api, updRes>>

\* ----------------------------------------------------------- session data
\* the n-th turn of an instance: the input and the response produced for it
Turn(m, n) == [seq |-> n, user_input |-> m, text_response |-> <<"re", n, m>>]

NewRun == [status |-> "Open", hist |-> <<>>, inbox |-> <<>>]

FailedStates == {"Terminated", "Canceled", "Failed"}

NoRes == [state |-> "none", turns |-> <<>>]
OkRes(ts) == [state |-> "ok", turns |-> ts]
StaleRes == [state |-> "failed", turns |-> <<>>]

\* ------------------------------------------------------------- substrate
HasRun == Len(runs) > 0
Latest == runs[Len(runs)]
OpenRuns == {i \in 1..Len(runs) : runs[i].status = "Open"}
LatestOpen == HasRun /\ Latest.status = "Open"

\* a substrate that starts an instance whatever is already Open
StartOutcomeNoArbitration(conflictPolicy) == "Created"

\* start(identity, {reuse ALLOW_DUPLICATE, conflictPolicy}): a closed prior
\* instance never blocks the start; an Open one does, according to the policy.
StartOutcome(conflictPolicy) ==
    IF OpenRuns # {}
      THEN IF conflictPolicy = "USE_EXISTING" THEN "Existing" ELSE "AlreadyStarted"
      ELSE "Created"

\* An event is recorded for the latest instance. A second end signal behind a
\* pending one changes nothing the worker does, and is not kept.
Enqueue(rs, msg) ==
    IF msg.kind = "end" /\ \E k \in 1..Len(rs[Len(rs)].inbox) : rs[Len(rs)].inbox[k].kind = "end"
      THEN rs
      ELSE [rs EXCEPT ![Len(rs)].inbox = Append(@, msg)]

UpdateMsg(from, text, len) == [kind |-> "update", from |-> from, text |-> text, len |-> len]
EndMsg == [kind |-> "end", from |-> "none", text |-> NoText, len |-> NoLen]

RECURSIVE Committed(_)
\* the turns committed in the first k instances
Committed(k) == IF k = 0 THEN 0 ELSE Len(runs[k].hist) + Committed(k - 1)

\* room left for one more turn: the turns committed in all instances and the
\* updates waiting in `run` stay within the model bound
Room(run) ==
    Committed(Len(runs))
       + Cardinality({k \in 1..Len(run.inbox) : run.inbox[k].kind = "update"}) < MaxHist

\* the callers whose updates wait in an inbox
Waiting(inbox) == {inbox[k].from : k \in {j \in 1..Len(inbox) : inbox[j].kind = "update"}}

FailWaiting(inbox) ==
    [c \in Callers |-> IF c \in Waiting(inbox) THEN StaleRes ELSE updRes[c]]

\* ------------------------------------------------- session state machine
\* a session that keeps only the newest turn
ProcessUserMessageKeepsNewest(run, msg) ==
    IF run.status # "Open" \/ (msg.len # NoLen /\ msg.len # Len(run.hist))
      THEN [run |-> run, res |-> StaleRes]
      ELSE [run |-> [run EXCEPT !.hist = <<Turn(msg.text, Len(run.hist) + 1)>>],
            res |-> OkRes(<<Turn(msg.text, Len(run.hist) + 1)>>)]

\* a session that records the input before it validates the call
ProcessUserMessageAppendsOnStale(run, msg) ==
    IF run.status # "Open" \/ (msg.len # NoLen /\ msg.len # Len(run.hist))
      THEN [run |-> [run EXCEPT !.hist = Append(@, [seq |-> Len(run.hist) + 1,
                                                    user_input |-> msg.text,
                                                    text_response |-> NoText])],
            res |-> StaleRes]
      ELSE [run |-> [run EXCEPT !.hist = Append(@, Turn(msg.text, Len(run.hist) + 1))],
            res |-> OkRes(<<Turn(msg.text, Len(run.hist) + 1)>>)]

\* processUserMessage: valid only in Open; Stale when the caller's expected
\* prior length is given and differs; otherwise appends one turn and
\* returns exactly the turns newly appended.
ProcessUserMessage(run, msg) ==
    IF run.status # "Open" \/ (msg.len # NoLen /\ msg.len # Len(run.hist))
      THEN [run |-> run, res |-> StaleRes]
      ELSE [run |-> [run EXCEPT !.hist = Append(@, Turn(msg.text, Len(run.hist) + 1))],
            res |-> OkRes(<<Turn(msg.text, Len(run.hist) + 1)>>)]

\* endWorkflow: Open -> Ended; run() returns
EndWorkflow(run) == [run EXCEPT !.status = "Ended", !.inbox = <<>>]

\* ----------------------------------------------------------------- worker
\* a worker polling a task queue other than the one the sessions run on
WorkerStepWrongQueue ==
    /\ workerUp
    /\ FALSE
    /\ UNCHANGED vars

\* a worker that takes the newest event of an instance first
WorkerStepNewestFirst ==
    /\ workerUp
    /\ \E i \in 1..Len(runs) :
         /\ runs[i].status = "Open"
         /\ runs[i].inbox # <<>>
         /\ LET msg == runs[i].inbox[Len(runs[i].inbox)]
                rest == SubSeq(runs[i].inbox, 1, Len(runs[i].inbox) - 1)
            IN IF msg.kind = "end"
                 THEN /\ runs' = [runs EXCEPT ![i] = EndWorkflow(@)]
                      /\ updRes' = FailWaiting(rest)
                 ELSE LET out == ProcessUserMessage(runs[i], msg)
                      IN /\ runs' = [runs EXCEPT ![i] = [out.run EXCEPT !.inbox = rest]]
                         /\ updRes' = [updRes EXCEPT ![msg.from] = out.res]
    /\ UNCHANGED <<workerUp, cli, api>>

\* The worker takes the next event of an Open instance, in arrival order.
WorkerStep ==
    /\ workerUp
    /\ \E i \in 1..Len(runs) :
         /\ runs[i].status = "Open"
         /\ runs[i].inbox # <<>>
         /\ LET msg == Head(runs[i].inbox)
                rest == Tail(runs[i].inbox)
            IN IF msg.kind = "end"
                 THEN /\ runs' = [runs EXCEPT ![i] = EndWorkflow(@)]
                      /\ updRes' = FailWaiting(rest)
                 ELSE LET out == ProcessUserMessage(runs[i], msg)
                      IN /\ runs' = [runs EXCEPT ![i] = [out.run EXCEPT !.inbox = rest]]
                         /\ updRes' = [updRes EXCEPT ![msg.from] = out.res]
    /\ UNCHANGED <<workerUp, cli, api>>

WorkerStop ==
    /\ workerUp
    /\ workerUp' = FALSE
    /\ UNCHANGED <<runs, cli, api, updRes>>

WorkerRun ==
    /\ ~workerUp
    /\ workerUp' = TRUE
    /\ UNCHANGED <<runs, cli, api, updRes>>

\* An operator terminates the Open instance from outside the program: one of
\* the statuses the read endpoint names as failed states.
OperatorTerminate ==
    /\ LatestOpen
    /\ runs' = [runs EXCEPT ![Len(runs)] = [@ EXCEPT !.status = "Terminated", !.inbox = <<>>]]
    /\ updRes' = FailWaiting(Latest.inbox)
    /\ UNCHANGED <<workerUp, cli, api>>

\* ------------------------------------------------------------ substrate RPCs
\* The outcomes of start_workflow(id, id_reuse_policy=ALLOW_DUPLICATE) under a
\* conflict policy: the instance list afterwards and what the caller is told.
\* The service may also refuse any request with an error of its own.
StartResults(conflictPolicy) ==
    LET o == StartOutcome(conflictPolicy)
    IN (IF o = "Created"
          THEN IF Len(runs) < MaxRuns
                 THEN {[runs |-> Append(runs, NewRun), res |-> "Created"]}
                 ELSE {}
          ELSE {[runs |-> runs, res |-> o]})
       \cup {[runs |-> runs, res |-> "RPCError"]}

\* handle.query(get_chat_history, reject_condition): what the caller gets.
\* A rejection or a missing identity is decided by the service; an answer
\* needs a worker.
QueryResults(rejectNotOpen) ==
    IF ~HasRun THEN {[kind |-> "NotFound", hist |-> <<>>]}
    ELSE IF rejectNotOpen /\ Latest.status # "Open" THEN {[kind |-> "Rejected", hist |-> <<>>]}
    ELSE IF workerUp THEN {[kind |-> "Result", hist |-> Latest.hist]}
    ELSE {[kind |-> "NoPoller", hist |-> <<>>], [kind |-> "Hang", hist |-> <<>>]}

\* ------------------------------------------- run_supervisor.py: main()
CliInit == [pc |-> "query", seen |-> "none", hist |-> <<>>, user_input |-> NoText,
            printed |-> <<>>, err |-> "none"]

\* the process has exited: its local history and output are gone; what stays
\* observable is how it ended and the last line it read
Exited(c, pc, why, line) ==
    cli' = [cli EXCEPT ![c] = [pc |-> pc,
                               seen |-> IF cli[c].pc = "start" THEN cli[c].seen ELSE "none",
                               hist |-> <<>>, user_input |-> line, printed |-> <<>>,
                               err |-> why]]

Crash(c, why) == Exited(c, "crashed", why, NoText)

\* lines 38-52: query with reject_condition NOT_OPEN, deciding `start`
CliQuery(c) ==
    /\ cli[c].pc = "query"
    /\ \E q \in QueryResults(TRUE) :
         \/ /\ q.kind = "Result"
            /\ cli' = [cli EXCEPT ![c].pc = "loop", ![c].seen = q.kind, ![c].hist = q.hist]
         \/ /\ q.kind \in {"Rejected", "NotFound"}
            /\ cli' = [cli EXCEPT ![c].pc = "start", ![c].seen = q.kind]
         \/ /\ q.kind \in {"NoPoller", "Hang"}
            /\ cli' = [cli EXCEPT ![c].pc = "crashed", ![c].seen = q.kind, ![c].err = "RPCError"]
    /\ UNCHANGED <<runs, workerUp, api, updRes>>

\* lines 54-62: start_workflow(ALLOW_DUPLICATE), outside any try
CliStart(c) ==
    /\ cli[c].pc = "start"
    /\ \E s \in StartResults("FAIL") :
         /\ runs' = s.runs
         /\ IF s.res = "Created"
              THEN cli' = [cli EXCEPT ![c].pc = "loop", ![c].hist = <<>>]
              ELSE Crash(c, s.res)
    /\ UNCHANGED <<workerUp, api, updRes>>

UpperCase == <<"A", "B", "C", "D", "E", "F", "G", "H", "I", "J", "K", "L", "M",
               "N", "O", "P", "Q", "R", "S", "T", "U", "V", "W", "X", "Y", "Z">>
LowerCase == <<"a", "b", "c", "d", "e", "f", "g", "h", "i", "j", "k", "l", "m",
               "n", "o", "p", "q", "r", "s", "t", "u", "v", "w", "x", "y", "z">>

LowerChar(ch) ==
    IF \E k \in 1..Len(UpperCase) : UpperCase[k] = ch
      THEN LowerCase[CHOOSE k \in 1..Len(UpperCase) : UpperCase[k] = ch]
      ELSE ch

\* line 69: user_input.lower()
Lower(line) == [k \in 1..Len(line) |-> LowerChar(line[k])]

\* a test that takes any line holding an exit word for the exit command
IsExitContains(line) ==
    LET lower_input == Lower(line)
    IN \E w \in {<<"e", "x", "i", "t">>, <<"e", "n", "d">>, <<"q", "u", "i", "t">>} :
          \E a \in 1..Len(lower_input) :
             a + Len(w) - 1 <= Len(lower_input) /\ SubSeq(lower_input, a, a + Len(w) - 1) = w

\* line 70
IsExit(line) ==
    LET lower_input == Lower(line)
    IN \/ lower_input = <<"e", "x", "i", "t">>
       \/ lower_input = <<"e", "n", "d">>
       \/ lower_input = <<"q", "u", "i", "t">>

\* line 80: chat_length=len(history)
ChatLength(history) == Len(history)

\* lines 68-86: one line read; the end signal, or the update submitted. What
\* the attach query answered is out of scope from here on; `printed` is what
\* the client has printed since the line was read.
CliInput(c) ==
    /\ cli[c].pc = "loop"
    /\ \E line \in Lines :
         IF IsExit(line)
           THEN /\ IF LatestOpen
                     THEN /\ runs' = Enqueue(runs, EndMsg)
                          /\ Exited(c, "done", "none", line)
                     ELSE /\ runs' = runs
                          /\ Exited(c, "crashed", "RPCError", line)
                /\ updRes' = updRes
           ELSE IF LatestOpen
                  THEN /\ Room(Latest)
                       /\ runs' = Enqueue(runs, UpdateMsg(c, line, ChatLength(cli[c].hist)))
                       /\ cli' = [cli EXCEPT ![c].pc = "await", ![c].seen = "none",
                                               ![c].printed = <<>>,
                                               ![c].user_input = line]
                       /\ updRes' = updRes
                  ELSE /\ runs' = runs
                       /\ cli' = [cli EXCEPT ![c].pc = "await", ![c].seen = "none",
                                               ![c].printed = <<>>,
                                               ![c].user_input = line]
                       /\ updRes' = [updRes EXCEPT ![c] = StaleRes]
    /\ UNCHANGED <<workerUp, api>>

\* lines 89 and 100: index = len(xs)-1 if len(xs) == 0 else 0
LastItemIndex(n) == IF n = 0 THEN n - 1 ELSE 0

\* xs[index] of a Python list: a negative index counts from the end
PyItem(xs, index) ==
    LET j == IF index < 0 THEN index + Len(xs) ELSE index
    IN IF j >= 0 /\ j < Len(xs)
         THEN [ok |-> TRUE, item |-> xs[j + 1]]
         ELSE [ok |-> FALSE, item |-> Turn(NoText, 0)]

\* a client that keeps only the turns just returned
ExtendedReplaces(history, new_history) == new_history

\* line 87: history.extend(new_history)
Extended(history, new_history) == history \o new_history

\* a client that adds the reloaded history to what it held
ReloadedExtends(history, fetched) == history \o fetched

\* lines 95-98: history = await handle.query(...)
Reloaded(history, fetched) == fetched

\* lines 87-94: the update's outcome; back at the prompt the line just handled
\* is dead (line 68 overwrites it before any read)
CliUpdateDone(c) ==
    /\ cli[c].pc = "await"
    /\ updRes[c].state # "none"
    /\ IF updRes[c].state = "ok"
         THEN LET new_history == updRes[c].turns
                  last_item == PyItem(new_history, LastItemIndex(Len(new_history)))
              IN IF last_item.ok
                   THEN cli' = [cli EXCEPT ![c].pc = "loop",
                                           ![c].hist = Extended(@, new_history),
                                           ![c].user_input = NoText,
                                           ![c].printed = last_item.item.text_response]
                   ELSE Crash(c, "IndexError")
         ELSE cli' = [cli EXCEPT ![c].pc = "reload"]
    /\ updRes' = [updRes EXCEPT ![c] = NoRes]
    /\ UNCHANGED <<runs, workerUp, api>>

\* lines 95-102: reload after a failed update
CliReload(c) ==
    /\ cli[c].pc = "reload"
    /\ \E q \in QueryResults(TRUE) :
         IF q.kind = "Result"
           THEN LET history == Reloaded(cli[c].hist, q.hist)
                    last_item == PyItem(history, LastItemIndex(Len(history)))
                IN IF last_item.ok
                     THEN cli' = [cli EXCEPT ![c].pc = "loop", ![c].hist = history,
                                             ![c].user_input = NoText,
                                             ![c].printed = last_item.item.text_response]
                     ELSE Crash(c, "IndexError")
           ELSE Crash(c, IF q.kind = "Rejected" THEN "QueryRejected" ELSE "RPCError")
    /\ UNCHANGED <<runs, workerUp, api, updRes>>

\* -------------------------------------------------------- api/main.py
Resp(code, kind, body) == [code |-> code, kind |-> kind, body |-> body]
NoResp == Resp(0, "none", <<>>)

ApiIdle == [op |-> "none", pc |-> "idle", prompt |-> NoText, cause |-> "none", resp |-> NoResp]

Finish(r, op, cause, resp) ==
    api' = [api EXCEPT ![r] = [op |-> op, pc |-> "done", prompt |-> api[r].prompt,
                               cause |-> cause, resp |-> resp]]

\* The message of a TemporalError, as far as the handler reads it: which of
\* the two phrases it contains.
ErrNoPoller == [noPoller |-> TRUE, notFound |-> FALSE]
ErrNotFound == [noPoller |-> FALSE, notFound |-> TRUE]
ErrOther == [noPoller |-> FALSE, notFound |-> FALSE]

\* a handler that takes the no-poller message for the not-found one
OnTemporalErrorConflated(e) ==
    IF e.noPoller \/ e.notFound THEN "start"
    ELSE "internal"

\* a handler that starts a session on every error it does not know
OnTemporalErrorStartsOnAny(e) ==
    IF e.noPoller THEN "unavailable"
    ELSE "start"

\* lines 86-105: except TemporalError
OnTemporalError(e) ==
    IF e.noPoller THEN "unavailable"
    ELSE IF e.notFound THEN "start"
    ELSE "internal"

WorkerUnavailable(detail) == Resp(404, detail, <<>>)
InternalError == Resp(500, "Internal server error while querying workflow.", <<>>)
\* an endpoint that returns only the newest turn
HistoryNewestOnly(h) == Resp(200, "history", IF h = <<>> THEN h ELSE <<h[Len(h)]>>)

\* lines 72, 80: the history returned
History(h) == Resp(200, "history", h)

\* what the handler does with a TemporalError raised inside its try block
GetChatHistoryFails(r, e, cause) ==
    LET todo == OnTemporalError(e)
    IN IF todo = "unavailable"
         THEN Finish(r, "get_chat_history", cause,
                     WorkerUnavailable("Workflow worker unavailable or not found."))
       ELSE IF todo = "start"
         THEN api' = [api EXCEPT ![r] = [op |-> "get_chat_history", pc |-> "start",
                                         prompt |-> NoText, cause |-> cause, resp |-> NoResp]]
       ELSE Finish(r, "get_chat_history", cause, InternalError)

\* a handler that counts every closed status as failed
IsFailedStateOrClosed(status) == status # "Open"

\* lines 63-70: description.status in failed_states
IsFailedState(status) == status \in FailedStates

\* lines 58-72: get_workflow_handle, describe, the failed states
GetChatHistoryDescribe(r) ==
    /\ api[r].pc = "idle"
    /\ \/ /\ ~HasRun
          /\ GetChatHistoryFails(r, ErrNotFound, "notFound")
       \/ /\ HasRun
          /\ IF IsFailedState(Latest.status)
               THEN Finish(r, "get_chat_history", "failedState", History(<<>>))
               ELSE api' = [api EXCEPT ![r] = [op |-> "get_chat_history", pc |-> "query",
                                               prompt |-> NoText, cause |-> "none", resp |-> NoResp]]
       \/ GetChatHistoryFails(r, ErrOther, "other")
    /\ UNCHANGED <<runs, workerUp, cli, updRes>>

\* seconds a query may take to answer
Delays == {1, QueryTimeout + 1}

\* lines 75-85: the query under asyncio.wait_for(timeout=5)
GetChatHistoryQuery(r) ==
    /\ api[r].pc = "query"
    /\ \E q \in QueryResults(FALSE), delay \in Delays :
         IF q.kind = "Hang" \/ (q.kind = "Result" /\ delay > QueryTimeout)
           THEN Finish(r, "get_chat_history", "timeout",
                       WorkerUnavailable("Temporal query timed out (worker may be unavailable)."))
         ELSE IF q.kind = "Result"
           THEN Finish(r, "get_chat_history", "result", History(q.hist))
         ELSE IF q.kind = "NoPoller"
           THEN GetChatHistoryFails(r, ErrNoPoller, "noPoller")
         ELSE GetChatHistoryFails(r, ErrNotFound, "notFound")
    /\ UNCHANGED <<runs, workerUp, cli, updRes>>

\* a start_workflow() without the except clause: the error leaves the call
start_workflowLetsErrorsOut ==
    {[runs |-> s.runs,
      message |-> IF s.res = "Created" THEN "Workflow started."
                  ELSE "Internal Server Error"] : s \in StartResults("FAIL")}

\* lines 149-166: start_workflow(), which catches every exception; the
\* instance list afterwards and the message returned
start_workflow ==
    {[runs |-> s.runs,
      message |-> IF s.res = "Created" THEN "Workflow started."
                  ELSE "An error occurred starting the workflow"] : s \in StartResults("FAIL")}

\* lines 97-99: await start_workflow(); return []
GetChatHistoryStart(r) ==
    /\ api[r].pc = "start"
    /\ \E s \in start_workflow :
         /\ runs' = s.runs
         /\ Finish(r, "get_chat_history", api[r].cause, History(<<>>))
    /\ UNCHANGED <<workerUp, cli, updRes>>

\* lines 148-166 as an endpoint
StartWorkflow(r) ==
    /\ api[r].pc = "idle"
    /\ \E s \in start_workflow :
         /\ runs' = s.runs
         /\ Finish(r, "start_workflow", "none", Resp(200, s.message, <<>>))
    /\ UNCHANGED <<workerUp, cli, updRes>>

\* the start operation left at the default conflict policy
SendPromptConflictPolicyFail == "FAIL"

\* lines 110-115: the conflict policy of the start operation
SendPromptConflictPolicy == "USE_EXISTING"

\* lines 108-128: update-with-start, one request to the substrate
SendPrompt(r) ==
    /\ api[r].pc = "idle"
    /\ \E prompt \in Prompts :
         LET o == StartOutcome(SendPromptConflictPolicy)
             message == UpdateMsg(r, prompt, NoLen)
             found == IF HasRun THEN Latest.status ELSE "absent"
         IN IF o = "AlreadyStarted"
              THEN /\ runs' = runs
                   /\ api' = [api EXCEPT ![r] = [op |-> "send_prompt", pc |-> "done",
                                                 prompt |-> prompt, cause |-> found,
                                                 resp |-> Resp(500, "AlreadyStarted", <<>>)]]
              ELSE /\ IF o = "Existing"
                        THEN /\ Room(Latest)
                             /\ runs' = Enqueue(runs, message)
                        ELSE /\ Len(runs) < MaxRuns
                             /\ Room(NewRun)
                             /\ runs' = Append(runs, [NewRun EXCEPT !.inbox = <<message>>])
                   /\ api' = [api EXCEPT ![r] = [op |-> "send_prompt", pc |-> "await",
                                                 prompt |-> prompt,
                                                 cause |-> found,
                                                 resp |-> NoResp]]
    /\ UNCHANGED <<workerUp, cli, updRes>>

\* lines 129-133: the update's outcome becomes the response
SendPromptDone(r) ==
    /\ api[r].pc = "await"
    /\ updRes[r].state # "none"
    /\ IF updRes[r].state = "ok"
         THEN Finish(r, "send_prompt", api[r].cause, Resp(200, "response", updRes[r].turns))
         ELSE Finish(r, "send_prompt", api[r].cause, Resp(200, "Error: update failed", <<>>))
    /\ updRes' = [updRes EXCEPT ![r] = NoRes]
    /\ UNCHANGED <<runs, workerUp, cli>>

\* an endpoint that lets the error of the signal through
EndChatNotAddressableRaises == Resp(500, "Internal Server Error", <<>>)

\* lines 143-146: except TemporalError: return {}
EndChatNotAddressable == Resp(200, "empty", <<>>)

\* lines 137-146: the end signal; any TemporalError gives the empty response
EndChat(r) ==
    /\ api[r].pc = "idle"
    /\ \/ /\ LatestOpen
          /\ runs' = Enqueue(runs, EndMsg)
          /\ Finish(r, "end_chat", "sent", Resp(200, "End chat signal sent.", <<>>))
       \/ /\ ~LatestOpen
          /\ runs' = runs
          /\ Finish(r, "end_chat", "notFound", EndChatNotAddressable)
    /\ UNCHANGED <<workerUp, cli, updRes>>

\* the response is sent; the request slot is free again
ApiReturn(r) ==
    /\ api[r].pc = "done"
    /\ api' = [api EXCEPT ![r] = ApiIdle]
    /\ UNCHANGED <<runs, workerUp, cli, updRes>>

\* ------------------------------------------------------------ the system
Init ==
    /\ runs = <<>>
    /\ workerUp = TRUE
    /\ \E team \in Teams :
         /\ cli = [c \in CLIs |-> IF c \in team THEN CliInit ELSE [CliInit EXCEPT !.pc = "off"]]
         /\ api = [r \in Reqs |-> IF r \in team THEN ApiIdle ELSE [ApiIdle EXCEPT !.pc = "off"]]
    /\ updRes = [c \in Callers |-> NoRes]

Next ==
    \/ WorkerStep
    \/ WorkerStop
    \/ WorkerRun
    \/ OperatorTerminate
    \/ \E c \in CLIs : CliQuery(c)
    \/ \E c \in CLIs : CliStart(c)
    \/ \E c \in CLIs : CliInput(c)
    \/ \E c \in CLIs : CliUpdateDone(c)
    \/ \E c \in CLIs : CliReload(c)
    \/ \E r \in Reqs : GetChatHistoryDescribe(r)
    \/ \E r \in Reqs : GetChatHistoryQuery(r)
    \/ \E r \in Reqs : GetChatHistoryStart(r)
    \/ \E r \in Reqs : StartWorkflow(r)
    \/ \E r \in Reqs : SendPrompt(r)
    \/ \E r \in Reqs : SendPromptDone(r)
    \/ \E r \in Reqs : EndChat(r)
    \/ \E r \in Reqs : ApiReturn(r)

Spec == Init /\ [][Next]_vars

\* The system with a worker that keeps polling and is scheduled fairly, and
\* no operator closing instances from outside.
NextLive ==
    \/ WorkerStep
    \/ \E c \in CLIs : CliQuery(c)
    \/ \E c \in CLIs : CliStart(c)
    \/ \E c \in CLIs : CliInput(c)
    \/ \E c \in CLIs : CliUpdateDone(c)
    \/ \E c \in CLIs : CliReload(c)
    \/ \E r \in Reqs : GetChatHistoryDescribe(r)
    \/ \E r \in Reqs : GetChatHistoryQuery(r)
    \/ \E r \in Reqs : GetChatHistoryStart(r)
    \/ \E r \in Reqs : StartWorkflow(r)
    \/ \E r \in Reqs : SendPrompt(r)
    \/ \E r \in Reqs : SendPromptDone(r)
    \/ \E r \in Reqs : EndChat(r)
    \/ \E r \in Reqs : ApiReturn(r)

LiveSpec == Init /\ [][NextLive]_vars /\ WF_vars(WorkerStep)

\* ================================================================ claims

\* C1: in every reachable state the identity has at most one Open instance,
\* whatever the interleaving of the clients' attach-or-start, the prompts,
\* the explicit starts and the end signals.
C1_AtMostOneOpen == Cardinality(OpenRuns) <= 1

\* two clients both found no instance and both tried to start: one Open
\* instance is left
C1_Witness ==
    /\ cli["c1"].seen = "NotFound" /\ cli["c2"].seen = "NotFound"
    /\ cli["c1"].pc = "loop"
    /\ cli["c2"].err = "AlreadyStarted"
    /\ Cardinality(OpenRuns) = 1

\* C2: a client whose creation attempt the substrate rejects because the
\* other client's instance is already Open does not fail.
C2_RejectedCreatorAttaches ==
    \A c, d \in CLIs :
        (/\ c # d
         /\ cli[c].seen \in {"NotFound", "Rejected"}
         /\ cli[d].seen \in {"NotFound", "Rejected"}
         /\ cli[d].pc = "loop")
        => ~(cli[c].pc = "crashed" /\ cli[c].err = "AlreadyStarted")

\* C3: a prompt sent to the identity when its session has Ended is answered
\* with the failure and is not handed to a newly created instance.
C3_StaleOnEnded ==
    \A r \in Reqs :
        (api[r].op = "send_prompt" /\ api[r].cause = "Ended") =>
            /\ api[r].pc = "done"
            /\ api[r].resp.kind = "Error: update failed"

\* the places where caller r's update waits
PendingOf(r) ==
    {<<i, k>> \in (1..Len(runs)) \X (1..(MaxHist + 2)) :
        k <= Len(runs[i].inbox) /\ runs[i].inbox[k].kind = "update" /\ runs[i].inbox[k].from = r}

\* no prompt is refused for want of a session or for a session started by
\* someone else, and a prompt in flight waits in the one Open instance
C4_NoStartRace ==
    \A r \in Reqs :
        /\ (api[r].op = "send_prompt" /\ api[r].pc = "done") => api[r].resp.code = 200
        /\ (api[r].pc = "await" /\ updRes[r].state = "none") =>
               /\ Cardinality(PendingOf(r)) = 1
               /\ \A p \in PendingOf(r) : OpenRuns = {p[1]}
        /\ (api[r].pc = "await" /\ updRes[r].state # "none") => PendingOf(r) = {}

\* a prompt fails only when its instance is closed under it; an accepted one
\* adds exactly its own turn to the one Open instance, which is the whole
\* history when the prompt started the instance
C4_AppliedOnce ==
    \A r \in Reqs :
        /\ (updRes[r].state = "none" /\ updRes'[r].state = "failed") =>
               \E i \in OpenRuns : runs'[i].status # "Open"
        /\ (updRes[r].state = "none" /\ updRes'[r].state = "ok") =>
               /\ Len(updRes'[r].turns) = 1
               /\ updRes'[r].turns[1].user_input = api[r].prompt
               /\ \E i \in 1..Len(runs) :
                    /\ OpenRuns = {i}
                    /\ runs'[i].hist = runs[i].hist \o updRes'[r].turns
                    /\ \A j \in 1..Len(runs) : j # i => runs'[j] = runs[j]
                    /\ api[r].cause # "Open" => runs'[i].hist = <<Turn(api[r].prompt, 1)>>

\* C4: update-with-start under the prefer-existing policy is one step: no
\* prompt fails because the session was absent or was started concurrently,
\* every accepted prompt is applied to the single Open instance, and a prompt
\* that starts the instance leaves a history of exactly its own turn with
\* the submitted input.
C4_AtomicStartUpdate == []C4_NoStartRace /\ [][C4_AppliedOnce]_vars

\* two prompts raced on a fresh identity: one started the instance, the other
\* used it, and both turns are in its history
C4_Witness ==
    /\ api["r1"].op = "send_prompt" /\ api["r1"].pc = "done" /\ api["r1"].cause = "absent"
    /\ api["r2"].op = "send_prompt" /\ api["r2"].pc = "done" /\ api["r2"].cause = "Open"
    /\ api["r1"].resp.kind = "response" /\ api["r2"].resp.kind = "response"
    /\ Len(runs) = 1 /\ Len(runs[1].hist) = 2

\* C5: a history read whose query times out, or finds no poller, answers
\* WorkerUnavailable (404); a not-found identity answers the empty history
\* (200); neither condition is ever answered as the other.
C5_UnavailableIsNotNotFound ==
    \A r \in Reqs :
        (api[r].op = "get_chat_history" /\ api[r].pc = "done") =>
            /\ api[r].cause \in {"timeout", "noPoller"} <=> api[r].resp.code = 404
            /\ api[r].cause = "notFound" => api[r].resp = History(<<>>)
            /\ api[r].resp.code = 404 => api[r].resp.kind # "history"

\* one read timed out and another found no poller: both answered 404
C5_Witness ==
    /\ api["r1"].pc = "done" /\ api["r1"].cause = "timeout" /\ api["r1"].resp.code = 404
    /\ api["r2"].pc = "done" /\ api["r2"].cause = "noPoller" /\ api["r2"].resp.code = 404

\* a read is about to start a session only after not-found or not-open, and
\* a read answered with an error never went that way
C6_StartPath ==
    /\ \A r \in Reqs :
          /\ api[r].pc = "start" => api[r].cause = "notFound"
          /\ (api[r].op = "get_chat_history" /\ api[r].pc = "done" /\ api[r].resp.code # 200)
                => api[r].cause \in {"timeout", "noPoller", "other"}
    /\ \A c \in CLIs : cli[c].pc = "start" => cli[c].seen \in {"NotFound", "Rejected"}

\* a step of a read that adds an instance is its start step
C6_ReadCreates ==
    /\ \A r \in Reqs :
          (api'[r] # api[r] /\ api'[r].op = "get_chat_history" /\ runs' # runs)
             => (api[r].pc = "start" /\ api[r].cause = "notFound")
    /\ \A c \in CLIs :
          (cli'[c] # cli[c] /\ cli[c].pc \in {"query", "start"} /\ runs' # runs)
             => (cli[c].pc = "start" /\ cli[c].seen \in {"NotFound", "Rejected"})

\* C6: a history read issues a start request only after the substrate
\* reported not-found or rejected the query as not-open; a read that ends
\* WorkerUnavailable or in another substrate error creates no session.
C6_NoCreateOnUnavailable == []C6_StartPath /\ [][C6_ReadCreates]_vars

\* a read of a never-started identity created the instance
C6_Witness ==
    /\ api["r1"].op = "get_chat_history" /\ api["r1"].pc = "done"
    /\ api["r1"].cause = "notFound"
    /\ Len(runs) = 1 /\ runs[1].status = "Open"
    /\ ~workerUp

\* C7: when a read or an attach-or-start of a never-started identity returns
\* the empty history, an Open instance of the identity exists.
C7_EmptyMeansOpen ==
    [][/\ \A r \in Reqs :
             (api[r].pc = "start" /\ api'[r].pc = "done") => OpenRuns' # {}
       /\ \A c \in CLIs :
             (cli[c].pc = "start" /\ cli'[c].pc = "loop") => OpenRuns' # {}]_vars

\* C8 as stated: a read that finds the latest instance not Open goes on to
\* create a session, as for not-found.
C8_NotOpenRecreates ==
    [][/\ \A r \in Reqs :
             (/\ api[r].pc = "idle" /\ api'[r].op = "get_chat_history"
              /\ api'[r].cause # "other"
              /\ HasRun /\ Latest.status # "Open")
             => api'[r].pc = "start"
       /\ \A c \in CLIs :
             (cli[c].pc = "query" /\ cli'[c] # cli[c] /\ HasRun /\ Latest.status # "Open")
             => cli'[c].pc = "start"]_vars

\* C8 amended: the not-open condition is never answered as an error. The
\* interactive client goes on to start a session and, once the start is
\* accepted, holds an empty history. The read endpoint creates nothing: a
\* terminated, canceled or failed instance gives the empty history, an ended
\* one is queried and gives its final history (or what the query's own
\* timeout or error gives).
C8_NotOpenRead ==
    [][/\ \A r \in Reqs :
             /\ (/\ api[r].pc = "idle" /\ api'[r].op = "get_chat_history"
                 /\ api'[r].cause # "other"
                 /\ HasRun /\ Latest.status # "Open")
                => /\ runs' = runs
                   /\ IF Latest.status \in FailedStates
                        THEN api'[r].pc = "done" /\ api'[r].resp = History(<<>>)
                        ELSE api'[r].pc = "query"
             /\ (/\ api[r].pc = "query" /\ api'[r].pc = "done"
                 /\ Latest.status = "Ended")
                => /\ runs' = runs
                   /\ \/ api'[r].resp = History(Latest.hist)
                      \/ api'[r].cause \in {"timeout", "noPoller"}
       /\ \A c \in CLIs :
             /\ (cli[c].pc = "query" /\ cli'[c] # cli[c] /\ HasRun /\ Latest.status # "Open")
                => (cli'[c].pc = "start" /\ runs' = runs)
             /\ (cli[c].pc = "start" /\ cli'[c].pc = "loop")
                => (cli'[c].hist = <<>> /\ runs' = Append(runs, NewRun))]_vars

\* the endpoint answered a terminated instance with the empty history, and
\* the client restarted the identity after its query was rejected
C8_Witness ==
    /\ api["r1"].pc = "done" /\ api["r1"].cause = "failedState"
    /\ api["r1"].resp = History(<<>>)
    /\ cli["c1"].seen = "Rejected" /\ cli["c1"].pc = "loop"
    /\ Len(runs) = 2 /\ Len(runs[1].hist) > 0

\* C9: once the end signal has been applied, the history read still returns
\* the full final history, through the read endpoint and through the
\* client's reload after a failed update.
C9_FinalHistoryReadable ==
    [][/\ \A r \in Reqs :
             (/\ api[r].pc = "query" /\ api'[r].pc = "done" /\ api'[r].cause = "result"
              /\ Latest.status = "Ended")
             => api'[r].resp = History(Latest.hist)
       /\ \A c \in CLIs :
             (/\ cli[c].pc = "reload" /\ cli'[c] # cli[c]
              /\ Latest.status = "Ended" /\ workerUp)
             => cli'[c].hist = Latest.hist]_vars

\* the end signal waits in instance i
EndPending(i) ==
    /\ i <= Len(runs)
    /\ runs[i].status = "Open"
    /\ \E k \in 1..Len(runs[i].inbox) : runs[i].inbox[k].kind = "end"

\* an instance becomes Ended only by the worker taking its end signal, and an
\* Ended instance never changes again
C10_EndedTerminal ==
    \A i \in 1..Len(runs) :
        /\ runs[i].status = "Ended" => (Len(runs') >= i /\ runs'[i] = runs[i])
        /\ (runs[i].status # "Ended" /\ Len(runs') >= i /\ runs'[i].status = "Ended")
              => (runs[i].status = "Open" /\ runs[i].inbox # <<>> /\ Head(runs[i].inbox).kind = "end")

\* C10: Ended is terminal: entered only through the end signal, never left,
\* no further turns; and an end signal sent to an Open instance drives it to
\* Ended, given a fair worker.
C10_EndSignalEnds ==
    /\ [][C10_EndedTerminal]_vars
    /\ \A i \in 1..MaxRuns : EndPending(i) ~> (i <= Len(runs) /\ runs[i].status = "Ended")

\* the endpoint's end signal was applied to an instance that held a turn, and
\* the identity was started again afterwards
C10_Witness ==
    /\ Len(runs) = 2
    /\ runs[1].status = "Ended" /\ Len(runs[1].hist) > 0
    /\ runs[2].status = "Open" /\ Len(runs[2].hist) > 0
    /\ api["r1"].op = "end_chat" /\ api["r1"].cause = "sent"

\* ------------------------------------------------------------------ C11
\* C11: an end request for the identity when no instance is addressable
\* (none was ever started, or the latest is no longer Open) is answered with
\* the empty success and changes nothing: no instance is added, no history
\* and no pending update changes; so a repeated end request is a no-op.
C11_EndChatNoInstance ==
    [][\A r \in Reqs :
          (api[r].pc = "idle" /\ api'[r].op = "end_chat" /\ ~LatestOpen)
          => /\ api'[r].pc = "done"
             /\ api'[r].resp = Resp(200, "empty", <<>>)
             /\ runs' = runs
             /\ updRes' = updRes]_vars

\* the session has ended with history and a further end request got the
\* empty success
C11_Witness ==
    /\ api["r1"].op = "end_chat" /\ api["r1"].pc = "done"
    /\ api["r1"].resp = Resp(200, "empty", <<>>)
    /\ Len(runs) = 1 /\ runs[1].status = "Ended" /\ Len(runs[1].hist) > 0

\* ------------------------------------------------------------------ C12
\* C12: the explicit start never raises past the call: it is answered with
\* "started" exactly when it added a fresh instance, and with the descriptive
\* failure otherwise; when an instance is Open it is rejected, and the
\* instances and their histories are left as they were.
C12_StartNeverRaises ==
    [][\A r \in Reqs :
          (api[r].pc = "idle" /\ api'[r].op = "start_workflow")
          => /\ api'[r].pc = "done"
             /\ api'[r].resp.code = 200
             /\ \/ /\ api'[r].resp.kind = "Workflow started."
                   /\ OpenRuns = {}
                   /\ runs' = Append(runs, NewRun)
                \/ /\ api'[r].resp.kind = "An error occurred starting the workflow"
                   /\ runs' = runs
             /\ updRes' = updRes]_vars

\* a start was refused while the Open instance held history
C12_Witness ==
    /\ api["r1"].op = "start_workflow" /\ api["r1"].pc = "done"
    /\ api["r1"].resp.kind = "An error occurred starting the workflow"
    /\ LatestOpen /\ Len(Latest.hist) > 0

\* ------------------------------------------------------------------ C13
\* C13 as stated: no step of a history read changes the session state, and
\* a read answered by the query returns the committed history.
C13_PureRead ==
    [][\A r \in Reqs :
          (api'[r] # api[r] /\ api'[r].op = "get_chat_history")
          => /\ runs' = runs
             /\ updRes' = updRes
             /\ (api[r].pc = "query" /\ api'[r].cause = "result")
                   => (api'[r].resp.code = 200 /\ api'[r].resp.body = Latest.hist)]_vars

\* C13 amended: a history read changes no existing instance and no pending
\* update; the one thing it may add is a fresh, empty instance, in the start
\* it issues after not-found. A read answered by the query returns exactly
\* the committed history of the latest instance.
C13_ReadKeepsInstances ==
    [][\A r \in Reqs :
          (api'[r] # api[r] /\ api'[r].op = "get_chat_history")
          => /\ \/ runs' = runs
                \/ /\ api[r].pc = "start" /\ api[r].cause = "notFound"
                   /\ runs' = Append(runs, NewRun)
             /\ updRes' = updRes
             /\ (api[r].pc = "query" /\ api'[r].cause = "result")
                   => (api'[r].resp.code = 200 /\ api'[r].resp.body = Latest.hist)]_vars

\* one read created the instance after not-found, another was answered
\* with the history committed since
C13_Witness ==
    /\ api["r1"].op = "get_chat_history" /\ api["r1"].pc = "done"
    /\ api["r1"].cause = "notFound"
    /\ api["r2"].op = "get_chat_history" /\ api["r2"].pc = "done"
    /\ api["r2"].cause = "result"
    /\ Len(runs) = 1 /\ Len(runs[1].hist) > 0
    /\ api["r2"].resp.body = runs[1].hist

\* ------------------------------------------------------------------ C14
\* C14: updates waiting on one instance are applied one at a time in the
\* order they were accepted: a history grows only by the block of turns
\* returned to the sender of the oldest waiting update, that update leaves
\* the queue, and an accepted update joins the queue at its end.
C14_Serialized ==
    [][UNCHANGED runs \/ \A i \in 1..Len(runs) :
          /\ runs'[i].hist # runs[i].hist
                => /\ runs[i].inbox # <<>>
                   /\ Head(runs[i].inbox).kind = "update"
                   /\ runs'[i].inbox = Tail(runs[i].inbox)
                   /\ updRes[Head(runs[i].inbox).from].state = "none"
                   /\ updRes'[Head(runs[i].inbox).from].state = "ok"
                   /\ runs'[i].hist = runs[i].hist \o updRes'[Head(runs[i].inbox).from].turns
                   /\ \A o \in Callers \ {Head(runs[i].inbox).from} : updRes'[o] = updRes[o]
          /\ (runs'[i].inbox # runs[i].inbox /\ runs'[i].status = "Open")
                => \/ runs[i].inbox # <<>> /\ runs'[i].inbox = Tail(runs[i].inbox)
                   \/ /\ Len(runs'[i].inbox) = Len(runs[i].inbox) + 1
                      /\ SubSeq(runs'[i].inbox, 1, Len(runs[i].inbox)) = runs[i].inbox]_vars

\* two callers' updates waited together; the older one is applied and
\* answered while the newer one still waits
C14_Witness ==
    \E i \in 1..Len(runs) : \E c \in Callers :
        /\ Len(runs[i].hist) = 1
        /\ Len(runs[i].inbox) = 1
        /\ runs[i].inbox[1].kind = "update"
        /\ runs[i].inbox[1].from # c
        /\ updRes[c] = OkRes(runs[i].hist)

\* ------------------------------------------------------------------ C15
\* C15: committed history is append-only: every step keeps each instance
\* and its committed turns in place; a history grows exactly by the turns
\* returned to one accepted update, and every accepted update's returned
\* turns are the growth of one history.
C15_AppendOnly ==
    [][\/ UNCHANGED <<runs, updRes>>
       \/ /\ Len(runs') >= Len(runs)
          /\ \A i \in 1..Len(runs) :
                /\ Len(runs'[i].hist) >= Len(runs[i].hist)
                /\ SubSeq(runs'[i].hist, 1, Len(runs[i].hist)) = runs[i].hist
                /\ runs'[i].hist # runs[i].hist
                      => \E c \in Callers :
                            /\ updRes[c].state # "ok" /\ updRes'[c].state = "ok"
                            /\ Len(runs'[i].hist) = Len(runs[i].hist) + Len(updRes'[c].turns)
                            /\ SubSeq(runs'[i].hist, Len(runs[i].hist) + 1, Len(runs'[i].hist))
                                  = updRes'[c].turns
          /\ \A c \in Callers :
                (updRes[c].state # "ok" /\ updRes'[c].state = "ok")
                   => /\ updRes'[c].turns # <<>>
                      /\ \E i \in 1..Len(runs) :
                            runs'[i].hist = runs[i].hist \o updRes'[c].turns]_vars

\* an instance holds two committed turns, in the order they were applied
C15_Witness ==
    \E i \in 1..Len(runs) :
        /\ Len(runs[i].hist) = 2
        /\ runs[i].hist[1].seq = 1 /\ runs[i].hist[2].seq = 2

\* ------------------------------------------------------------------ C16
\* C16: an update that fails leaves every committed history exactly as it
\* was, is reported to the caller as a failure with no turns, and no
\* history ever holds a turn without its response.
C16_FailedUpdateAtomic ==
    [][\/ UNCHANGED <<runs, updRes>>
       \/ /\ \A c \in Callers :
                (updRes[c].state # "failed" /\ updRes'[c].state = "failed")
                   => /\ updRes'[c].turns = <<>>
                      /\ \A i \in 1..Len(runs) : runs'[i].hist = runs[i].hist
          /\ \A r \in Reqs :
                (api[r].pc = "await" /\ updRes[r].state = "failed" /\ api'[r] # api[r])
                   => /\ api'[r].resp = Resp(200, "Error: update failed", <<>>)
                      /\ runs' = runs
          /\ \A i \in 1..Len(runs') : \A k \in 1..Len(runs'[i].hist) :
                runs'[i].hist[k] = Turn(runs'[i].hist[k].user_input, k)]_vars

\* a caller's update failed on an Open instance that holds a committed turn
C16_Witness ==
    \E c \in Callers :
        /\ updRes[c].state = "failed"
        /\ LatestOpen /\ Len(Latest.hist) > 0

\* ------------------------------------------------------------------ C17
\* C17: after an accepted message and after a reload the interactive client
\* has printed the response of the last turn it holds, and printing never
\* fails on an empty result.
C17_PrintsLatest ==
    \A c \in CLIs :
        /\ cli[c].err # "IndexError"
        /\ (cli[c].pc = "loop" /\ cli[c].printed # <<>>)
              => (/\ cli[c].hist # <<>>
                  /\ cli[c].printed = cli[c].hist[Len(cli[c].hist)].text_response)

\* ------------------------------------------------------------------ C18
\* C18: a line read at the prompt ends the loop exactly when it is "exit",
\* "end" or "quit" in any letter case: then the end signal is sent once, no
\* update is submitted and the client stops. Any other line, also one that
\* contains such a word, is submitted as an update carrying the line, and
\* the client goes on to its outcome.
C18_ExitExactly ==
    [][\A c \in CLIs :
          (cli[c].pc = "loop" /\ cli'[c] # cli[c])
          => IF cli'[c].user_input \in {<<"e", "x", "i", "t">>, <<"E", "n", "D">>,
                                        <<"Q", "U", "I", "T">>}
               THEN /\ cli'[c].pc \in {"done", "crashed"}
                    /\ cli'[c].pc = "done" <=> LatestOpen
                    /\ updRes' = updRes
                    /\ \/ runs' = runs
                       \/ /\ LatestOpen
                          /\ runs' = [runs EXCEPT ![Len(runs)].inbox = Append(@, EndMsg)]
               ELSE /\ cli'[c].user_input = Ends
                    /\ cli'[c].pc = "await"
                    /\ IF LatestOpen
                         THEN /\ runs' = [runs EXCEPT ![Len(runs)].inbox =
                                             Append(@, UpdateMsg(c, Ends, Len(cli[c].hist)))]
                              /\ updRes' = updRes
                         ELSE /\ runs' = runs
                              /\ updRes' = [updRes EXCEPT ![c] = StaleRes]]_vars

\* one client stopped on "QUIT" with its end signal waiting, the other
\* submitted a line that contains "end"
C18_Witness ==
    /\ cli["c1"].pc = "done" /\ cli["c1"].user_input = <<"Q", "U", "I", "T">>
    /\ cli["c2"].pc = "await" /\ cli["c2"].user_input = Ends
    /\ LatestOpen
    /\ Len(Latest.inbox) = 2
    /\ Latest.inbox[1] = EndMsg
    /\ Latest.inbox[2] = UpdateMsg("c2", Ends, 0)

\* ------------------------------------------------------------------ C19
\* C19: a failed update is not submitted again: the client goes to the
\* reload with its history untouched, the reload submits nothing, and when
\* the reload completes the local history is the committed history of the
\* session at that moment.
C19_StaleReloads ==
    [][\A c \in CLIs :
          /\ (cli[c].pc = "await" /\ updRes[c].state = "failed" /\ cli'[c] # cli[c])
                => /\ cli'[c].pc = "reload"
                   /\ cli'[c].hist = cli[c].hist
                   /\ runs' = runs
          /\ (cli[c].pc = "reload" /\ cli'[c] # cli[c])
                => /\ runs' = runs
                   /\ updRes' = updRes
                   /\ cli'[c].pc = "loop" => cli'[c].hist = Latest.hist
          /\ cli'[c].pc = "reload" => (PendingOf(c))' = {}]_vars

\* a client that held two turns of an earlier instance has reloaded the one
\* turn of the current instance
C19_Witness ==
    /\ cli["c1"].pc = "loop"
    /\ Len(runs) = 2 /\ Len(runs[1].hist) = 2 /\ Len(runs[2].hist) = 1
    /\ cli["c1"].hist = runs[2].hist
    /\ cli["c1"].printed = runs[2].hist[1].text_response
    /\ cli["c1"].seen = "none"

\* ------------------------------------------------------------------ C20
IsPrefix(s, t) == Len(s) <= Len(t) /\ SubSeq(t, 1, Len(s)) = s

====
